---------------------------- MODULE Spec2Model ----------------------------
(* A model of mp_orders.py: the retry loop of fetch_payment, the thread   *)
(* pool that main builds over the payment ids, and the loop of main that  *)
(* writes one CSV row per completed future.                                *)
(*                                                                         *)
(* Text is modelled as a sequence of one-character strings, so that        *)
(* str(), f-strings, startswith, isdigit and "contains" are computed.      *)
EXTENDS Integers, Sequences, FiniteSets, TLC

-----------------------------------------------------------------------------
(* Bounds of the model. *)

MaxIds == 2

MaxRetries == 2

-----------------------------------------------------------------------------
(* Text helpers (Python str semantics). *)

RECURSIVE PyStrInt(_)
(* str(n) for an int n >= 0: its decimal digits. *)
PyStrInt(n) ==
    LET d == <<"0", "1", "2", "3", "4", "5", "6", "7", "8", "9">>
    IN  IF n < 10 THEN <<d[n + 1]>> ELSE PyStrInt(n \div 10) \o <<d[(n % 10) + 1]>>

(* s.startswith(p) *)
StartsWith(s, p) ==
    /\ Len(p) <= Len(s)
    /\ \A k \in 1..Len(p) : s[k] = p[k]

(* p in s *)
Contains(s, p) ==
    \E k \in 0..(Len(s) - Len(p)) : \A j \in 1..Len(p) : s[k + j] = p[j]

(* s[:n] *)
Prefix(s, n) == IF Len(s) <= n THEN s ELSE SubSeq(s, 1, n)

(* The characters str.isdigit accepts: the decimal digits and the digits   *)
(* that are not decimal, of which U+00B2 (superscript two, reachable in a  *)
(* Latin-1 decoded header) stands here as "sup2".                          *)
DecimalChars == {"0", "1", "2", "3", "4", "5", "6", "7", "8", "9"}

DigitChars == DecimalChars \cup {"sup2"}

(* s.isdigit(): non-empty and every character is a digit. *)
IsDigit(s) == Len(s) > 0 /\ \A k \in 1..Len(s) : s[k] \in DigitChars

DigitVal(c) ==
    CASE c = "0" -> 0 [] c = "1" -> 1 [] c = "2" -> 2 [] c = "3" -> 3
      [] c = "4" -> 4 [] c = "5" -> 5 [] c = "6" -> 6 [] c = "7" -> 7
      [] c = "8" -> 8 [] c = "9" -> 9

RECURSIVE DecimalValue(_)
DecimalValue(s) ==
    IF Len(s) = 0 THEN 0
    ELSE 10 * DecimalValue(SubSeq(s, 1, Len(s) - 1)) + DigitVal(s[Len(s)])

(* float(s) on a string of digits: a number when every character is a      *)
(* decimal digit, ValueError otherwise. A float is kept as a fraction.     *)
PyFloat(s) ==
    IF \A k \in 1..Len(s) : s[k] \in DecimalChars
    THEN [ok |-> TRUE, num |-> DecimalValue(s), den |-> 1]
    ELSE [ok |-> FALSE, num |-> 0, den |-> 1]

RECURSIVE IntPow(_, _)
IntPow(b, e) == IF e = 0 THEN 1 ELSE b * IntPow(b, e - 1)

(* The backoff base main passes to fetch_payment, 1.2, as a fraction. *)
BackoffNum == 12

BackoffDen == 10

(* backoff ** attempt *)
BackoffPow(attempt) ==
    [num |-> IntPow(BackoffNum, attempt), den |-> IntPow(BackoffDen, attempt)]

-----------------------------------------------------------------------------
(* String literals of the program. *)

S_APP_JSON ==
    <<"a", "p", "p", "l", "i", "c", "a", "t", "i", "o", "n", "/", "j", "s",
      "o", "n">>

S_APP_JSON_UTF8 == S_APP_JSON \o <<";", " ", "u", "t", "f", "-", "8">>

S_TEXT_HTML == <<"t", "e", "x", "t", "/", "h", "t", "m", "l">>

S_INVALID_JSON ==
    <<"I", "n", "v", "a", "l", "i", "d", " ", "J", "S", "O", "N", " ", "i",
      "n", " ", "r", "e", "s", "p", "o", "n", "s", "e">>

S_HTTP == <<"H", "T", "T", "P", " ">>

S_REQUEST_FAILED ==
    <<"R", "e", "q", "u", "e", "s", "t", " ", "f", "a", "i", "l", "e", "d",
      ":", " ">>

S_EXHAUSTED ==
    <<"E", "x", "h", "a", "u", "s", "t", "e", "d", " ", "r", "e", "t", "r",
      "i", "e", "s">>

-----------------------------------------------------------------------------
(* JSON values as resp.json() returns them, and Python's str() and         *)
(* truthiness on them. A failed decode is JBad.                            *)

JNull == [t |-> "null"]

JBad == [t |-> "bad"]

JBool(b) == [t |-> "bool", b |-> b]

JInt(n) == [t |-> "int", n |-> n]

JStr(s) == [t |-> "str", s |-> s]

JList(l) == [t |-> "list", l |-> l]

JDict(d) == [t |-> "dict", d |-> d]

(* isinstance(v, dict) *)
IsDict(v) == v.t = "dict"

(* v.get(k) on a dict v: None when the key is absent. *)
DictGet(v, k) == IF k \in DOMAIN v.d THEN v.d[k] ELSE JNull

(* bool(v) *)
PyTruthy(v) ==
    CASE v.t = "null" -> FALSE
      [] v.t = "bool" -> v.b
      [] v.t = "int" -> v.n # 0
      [] v.t = "str" -> Len(v.s) > 0
      [] v.t = "list" -> Len(v.l) > 0
      [] v.t = "dict" -> DOMAIN v.d # {}

(* a or b *)
PyOr(a, b) == IF PyTruthy(a) THEN a ELSE b

RECURSIVE JoinInts(_)
(* ", ".join of the elements of a list of ints, as repr() prints them. *)
JoinInts(l) ==
    IF Len(l) = 0 THEN <<>>
    ELSE IF Len(l) = 1 THEN PyStrInt(l[1].n)
    ELSE PyStrInt(l[1].n) \o <<",", " ">> \o JoinInts(Tail(l))

(* str(v), for the values the model draws: None, bool, int >= 0, str and   *)
(* lists of ints.                                                          *)
PyStr(v) ==
    CASE v.t = "null" -> <<"N", "o", "n", "e">>
      [] v.t = "bool" -> IF v.b THEN <<"T", "r", "u", "e">>
                                ELSE <<"F", "a", "l", "s", "e">>
      [] v.t = "int" -> PyStrInt(v.n)
      [] v.t = "str" -> v.s
      [] v.t = "list" -> <<"[">> \o JoinInts(v.l) \o <<"]">>

-----------------------------------------------------------------------------
(* fetch_payment: one iteration of the retry loop as a function of the     *)
(* response (or the transport failure) it gets.                            *)

(* The statuses retried while attempts remain. *)
RetryStatuses == {429, 500, 502, 503, 504}

(* The longest error text taken from a non-JSON body. *)
TextLimit == 500

(* 200 <= status < 300 *)
Is2xx(status) == 200 <= status /\ status < 300

(* ParseBody without line 66: the text of a non-JSON error body is lost. *)
ParseBodyNoText(resp) ==
    IF StartsWith(resp.ct, S_APP_JSON)
    THEN IF resp.json.t = "bad"
         THEN [data |-> JNull, err |-> S_INVALID_JSON]
         ELSE [data |-> resp.json, err |-> <<>>]
    ELSE [data |-> JNull, err |-> <<>>]

(* Lines 57-66: data and err of a response. err = None is kept as the      *)
(* empty text: err is only ever read as `err or ...`.                      *)
ParseBody(resp) ==
    IF StartsWith(resp.ct, S_APP_JSON)
    THEN IF resp.json.t = "bad"
         THEN [data |-> JNull, err |-> S_INVALID_JSON]
         ELSE [data |-> resp.json, err |-> <<>>]
    ELSE IF ~Is2xx(resp.status)
         THEN [data |-> JNull, err |-> Prefix(resp.text, TextLimit)]
         ELSE [data |-> JNull, err |-> <<>>]

(* ShouldRetry with the last attempt retried too (<= for <). *)
ShouldRetryOffByOne(status, attempt, max_retries) ==
    status \in {429, 500, 502, 503, 504} /\ attempt <= max_retries

(* Line 69: retry this response? *)
ShouldRetry(status, attempt, max_retries) ==
    status \in RetryStatuses /\ attempt < max_retries

(* Lines 70-71: the sleep before the next attempt; ok = FALSE when float() *)
(* raises ValueError. has = FALSE is an absent Retry-After header.         *)
SleepSeconds(retry_after, attempt) ==
    IF retry_after.has /\ Len(retry_after.val) > 0 /\ IsDigit(retry_after.val)
    THEN PyFloat(retry_after.val)
    ELSE [ok |-> TRUE] @@ BackoffPow(attempt)

Row(payment_id, order_id, external_reference, http_status, error) ==
    [payment_id |-> payment_id, order_id |-> order_id,
     external_reference |-> external_reference,
     http_status |-> http_status, error |-> error]

(* SuccessRow without the `or ""` of lines 80-81. *)
SuccessRowNoDefault(payment_id, status, data) ==
    LET order == DictGet(data, "order")
        order_id == IF IsDict(order) THEN PyStr(DictGet(order, "id")) ELSE <<>>
        external_reference == PyStr(DictGet(data, "external_reference"))
    IN  Row(payment_id, order_id, external_reference, status, <<>>)

(* Lines 78-88: the row of a 2xx response whose data is a dict. *)
SuccessRow(payment_id, status, data) ==
    LET order == DictGet(data, "order")
        order_id == IF IsDict(order)
                    THEN PyStr(PyOr(DictGet(order, "id"), JStr(<<>>)))
                    ELSE <<>>
        external_reference ==
            PyStr(PyOr(DictGet(data, "external_reference"), JStr(<<>>)))
    IN  Row(payment_id, order_id, external_reference, status, <<>>)

(* ErrorRow without the "HTTP {status}" default of line 100. *)
ErrorRowNoDefault(payment_id, status, data, err) ==
    LET api_msg == IF IsDict(data)
                   THEN PyOr(DictGet(data, "message"),
                             PyOr(DictGet(data, "error"), DictGet(data, "cause")))
                   ELSE JNull
    IN  Row(payment_id, <<>>, <<>>, status,
            IF IsDict(data) /\ PyTruthy(api_msg) THEN PyStr(api_msg) ELSE err)

(* ErrorRow that fills order_id and external_reference from a mapping. *)
ErrorRowWithIds(payment_id, status, data, err) ==
    LET api_msg == IF IsDict(data)
                   THEN PyOr(DictGet(data, "message"),
                             PyOr(DictGet(data, "error"), DictGet(data, "cause")))
                   ELSE JNull
        err2 == IF IsDict(data) /\ PyTruthy(api_msg) THEN PyStr(api_msg) ELSE err
        ids == IF IsDict(data)
               THEN SuccessRow(payment_id, status, data)
               ELSE Row(payment_id, <<>>, <<>>, status, <<>>)
    IN  Row(payment_id, ids.order_id, ids.external_reference, status,
            IF Len(err2) > 0 THEN err2 ELSE S_HTTP \o PyStrInt(status))

(* Lines 91-101: the row of any other response that is not retried. *)
ErrorRow(payment_id, status, data, err) ==
    LET api_msg == IF IsDict(data)
                   THEN PyOr(DictGet(data, "message"),
                             PyOr(DictGet(data, "error"), DictGet(data, "cause")))
                   ELSE JNull
        err2 == IF IsDict(data) /\ PyTruthy(api_msg) THEN PyStr(api_msg) ELSE err
    IN  Row(payment_id, <<>>, <<>>, status,
            IF Len(err2) > 0 THEN err2 ELSE S_HTTP \o PyStrInt(status))

(* Lines 75-101 *)
TerminalRow(payment_id, resp) ==
    LET p == ParseBody(resp)
    IN  IF Is2xx(resp.status) /\ IsDict(p.data)
        THEN SuccessRow(payment_id, resp.status, p.data)
        ELSE ErrorRow(payment_id, resp.status, p.data, p.err)

(* FailedRow without the exception's text. *)
FailedRowNoMessage(payment_id, e) ==
    Row(payment_id, <<>>, <<>>, 0, S_REQUEST_FAILED)

(* Lines 106-112: the row of a transport failure on the last attempt. *)
FailedRow(payment_id, e) == Row(payment_id, <<>>, <<>>, 0, S_REQUEST_FAILED \o e)

(* Lines 115-121: the fallback after the loop. *)
FallbackRow(payment_id) == Row(payment_id, <<>>, <<>>, 0, S_EXHAUSTED)

-----------------------------------------------------------------------------
(* What the remote end can answer. The code reads resp.json() only under a  *)
(* JSON content type and resp.text only otherwise, so a response carries    *)
(* the one its content type makes the code read.                            *)

NoHeader == [has |-> FALSE, val |-> <<>>]

Header(v) == [has |-> TRUE, val |-> v]

RetryAfterValues ==
    {NoHeader, Header(<<>>), Header(<<"0">>), Header(<<"7">>),
     Header(<<"1", "0">>), Header(<<"-", "1">>), Header(<<"1", ".", "5">>),
     Header(<<"a">>), Header(<<"sup2">>)}

Statuses == {200, 299, 300, 404, 429, 500, 504}

JsonBodies ==
    {JBad, JNull, JList(<<>>), JStr(<<"o", "k">>),
     JDict([order |-> JDict([id |-> JStr(<<"1", "2", "3">>)]),
            external_reference |-> JStr(<<"r", "e", "f", "-", "9">>)]),
     JDict([order |-> JDict([id |-> JInt(123)])]),
     JDict([order |-> JDict([id |-> JInt(0)]), external_reference |-> JInt(0)]),
     JDict([order |-> JDict([id |-> JNull]), external_reference |-> JNull]),
     JDict([order |-> JDict([type |-> JStr(<<"x">>)]),
            external_reference |-> JBool(TRUE)]),
     JDict([order |-> JStr(<<"x">>), external_reference |-> JStr(<<"r">>)]),
     JDict([status |-> JInt(404)]),
     JDict([message |-> JStr(<<"n", "o">>), error |-> JStr(<<"n", "f">>),
            cause |-> JList(<<>>)]),
     JDict([message |-> JStr(<<>>), error |-> JStr(<<"b", "a", "d">>)]),
     JDict([message |-> JNull, cause |-> JList(<<JInt(7), JInt(8)>>)]),
     JDict([message |-> JInt(500),
            order |-> JDict([id |-> JInt(5)]),
            external_reference |-> JStr(<<"r">>)])}

Texts == {<<>>, <<"o", "o", "p", "s">>}

JsonResponse(status, ct, retry_after, json) ==
    [status |-> status, ct |-> ct, retry_after |-> retry_after,
     json |-> json, text |-> <<>>]

TextResponse(status, ct, retry_after, text) ==
    [status |-> status, ct |-> ct, retry_after |-> retry_after,
     json |-> JBad, text |-> text]

(* A JSON mapping sent under a content type that is not JSON: the code     *)
(* never decodes it.                                                       *)
MislabelledResponse(status) ==
    [status |-> status, ct |-> S_TEXT_HTML, retry_after |-> NoHeader,
     json |-> JDict([order |-> JDict([id |-> JInt(5)])]),
     text |-> <<"{", "\"", "o", "r", "d", "e", "r", "\"", ":", "{", "\"",
                "i", "d", "\"", ":", "5", "}", "}">>]

(* Every status with every body and no Retry-After header, every status    *)
(* with every Retry-After header, and the mislabelled mapping.             *)
Responses ==
    {JsonResponse(st, ct, NoHeader, j) :
        st \in Statuses, ct \in {S_APP_JSON, S_APP_JSON_UTF8}, j \in JsonBodies}
    \cup
    {TextResponse(st, ct, NoHeader, tx) :
        st \in Statuses, ct \in {S_TEXT_HTML, <<>>}, tx \in Texts}
    \cup
    {TextResponse(st, S_TEXT_HTML, ra, <<>>) :
        st \in Statuses, ra \in RetryAfterValues}
    \cup
    {MislabelledResponse(st) : st \in Statuses}

(* str(e) of a requests.RequestException *)
TransportErrors == {<<>>, <<"t", "i", "m", "e", "d">>}

(* The answers the pool runs are drawn from: one of each way an attempt    *)
(* can end.                                                                *)
CoreResponses ==
    {JsonResponse(200, S_APP_JSON, NoHeader,
        JDict([order |-> JDict([id |-> JInt(123)])])),
     TextResponse(500, S_TEXT_HTML, NoHeader, <<>>),
     TextResponse(429, S_TEXT_HTML, Header(<<"sup2">>), <<>>)}

CoreErrors == {<<"t", "i", "m", "e", "d">>}

(* Identifiers are opaque to the program. *)
Ids == {<<"7">>, <<"8", "1">>}

(* --workers: one thread, or threads running side by side. *)
WorkerCounts == {1, 2}

(* --retries for the whole program: the loop of fetch_payment runs not at  *)
(* all, once, or with one retry. Deeper loops are the subject of FetchSpec. *)
RetryCounts == {0, 1, 2}

-----------------------------------------------------------------------------
(* State. *)

VARIABLES
    payment_ids,   \* main: the list parse_ids yields
    workers,       \* --workers
    max_retries,   \* --retries
    token,         \* --token, or MP_TOKEN (None reads as "")
    mainpc,        \* where main is
    submitted,     \* how many futures executor.submit has made
    queue,         \* the executor's work queue (task indices)
    running,       \* per worker thread: the task it runs, or 0
    sess,          \* per worker thread: _session_local.sess, a session
                   \* named by the thread that built it, or 0 (None)
    built,         \* calls of _build_session so far
    pc,            \* per task: where its fetch_payment call is
    attempt,       \* per task: the loop variable of fetch_payment
    gets,          \* per task: GET requests issued
    last,          \* per task: what its latest GET ended with
    sleep_s,       \* per task: the latest time.sleep argument
    result,        \* per task: what the future holds
    seen,          \* futures as_completed has yielded
    row,           \* main: the row of the future at hand
    lock,          \* _write_lock is held
    buffer,        \* lines written to csvfile, not flushed
    file,          \* lines flushed to the output file
    processed,     \* main: processed
    stdout         \* lines printed

vars ==
    <<payment_ids, workers, max_retries, token, mainpc, submitted, queue,
      running, sess, built, pc, attempt, gets, last, sleep_s, result, seen, row, lock,
      buffer, file, processed, stdout>>

config == <<payment_ids, workers, max_retries, token>>

fetchVars == <<pc, attempt, gets, last, sleep_s, result>>

poolVars == <<queue, running, sess, built>>

sinkVars == <<row, lock, buffer, file, processed, stdout>>

Tasks == 1..Len(payment_ids)

Threads == 1..workers

total == Len(payment_ids)

NoRow == [none |-> TRUE]

NoSleep == [ok |-> TRUE, num |-> 0, den |-> 0]

NoEvent == [kind |-> "none", attempt |-> 0]

GotResponse(resp, k) == [kind |-> "resp", attempt |-> k, resp |-> resp]

GotFailure(e, k) == [kind |-> "fail", attempt |-> k, e |-> e]

fieldnames ==
    <<"payment_id", "order_id", "external_reference", "http_status", "error">>

HeaderLine == [kind |-> "header", fields |-> fieldnames]

RowLine(r) == [kind |-> "row", fields |-> r]

RECURSIVE SeqsUpTo(_, _)
(* The sequences over S of length 1..n. *)
SeqsUpTo(S, n) ==
    IF n = 0 THEN {}
    ELSE LET shorter == SeqsUpTo(S, n - 1)
         IN  {<<x>> : x \in S} \cup shorter \cup
             {Append(q, x) : q \in shorter, x \in S}

(* Line 134: the token given, or none. *)
Tokens == {<<>>, <<" ">>, <<" ", "t", "k", " ">>}

WhiteSpace == {" ", "\t", "\n"}

RECURSIVE LStrip(_)
LStrip(s) ==
    IF s # <<>> /\ Head(s) \in WhiteSpace THEN LStrip(Tail(s)) ELSE s

RECURSIVE RStrip(_)
RStrip(s) ==
    IF s # <<>> /\ s[Len(s)] \in WhiteSpace
    THEN RStrip(SubSeq(s, 1, Len(s) - 1))
    ELSE s

(* str.strip() *)
Strip(s) == RStrip(LStrip(s))

(* A line of an output file that an earlier run left. *)
OldLine == [kind |-> "old"]

(* --outfile before the run: absent, or left by an earlier run. *)
OutfileBefore == {<<>>, <<OldLine>>}

InitState ==
    /\ token \in Tokens
    /\ mainpc = "start"
    /\ submitted = 0
    /\ queue = <<>>
    /\ running = [t \in Threads |-> 0]
    /\ sess = [t \in Threads |-> 0]
    /\ built = 0
    /\ pc = [i \in Tasks |-> "new"]
    /\ attempt = [i \in Tasks |-> 0]
    /\ gets = [i \in Tasks |-> 0]
    /\ last = [i \in Tasks |-> NoEvent]
    /\ sleep_s = [i \in Tasks |-> NoSleep]
    /\ result = [i \in Tasks |-> NoRow]
    /\ seen = {}
    /\ row = NoRow
    /\ lock = FALSE
    /\ buffer = <<>>
    /\ file \in OutfileBefore
    /\ processed = 0
    /\ stdout = <<>>

(* main after parse_args: any token, any list of 1..MaxIds identifiers in  *)
(* --infile, duplicates allowed (up to renaming: the first one is "7"),    *)
(* and a retry maximum that gives no attempt, one attempt, or one retry.   *)
Init ==
    /\ payment_ids \in {q \in SeqsUpTo(Ids, MaxIds) : q[1] = <<"7">>}
    /\ workers \in WorkerCounts
    /\ max_retries \in RetryCounts
    /\ InitState

-----------------------------------------------------------------------------
(* main *)

(* Lines 143-156: a blank token ends the run with SystemExit; otherwise    *)
(* the identifiers are read (total > 0 here).                              *)
MainStart ==
    /\ mainpc = "start"
    /\ mainpc' = IF Strip(token) = <<>> THEN "fatal" ELSE "open"
    /\ UNCHANGED <<config, submitted, poolVars, fetchVars, seen, sinkVars>>

(* Lines 162-165: open the output (created or truncated), write the       *)
(* header and flush it.                                                    *)
MainOpen ==
    /\ mainpc = "open"
    /\ file' = <<HeaderLine>>
    /\ mainpc' = "submit"
    /\ UNCHANGED <<config, submitted, poolVars, fetchVars, seen, row, lock,
                   buffer, processed, stdout>>

(* Lines 168-179: executor.submit of the next payment id. *)
Submit ==
    /\ mainpc = "submit"
    /\ submitted < total
    /\ submitted' = submitted + 1
    /\ queue' = Append(queue, submitted + 1)
    /\ pc' = [pc EXCEPT ![submitted + 1] = "queued"]
    /\ mainpc' = IF submitted + 1 = total THEN "collect" ELSE "submit"
    /\ UNCHANGED <<config, running, sess, built, attempt, gets, last,
                   sleep_s, result, seen, sinkVars>>

(* A future that counts as done only while no call sleeps. *)
FinishedWhenNoneSleeps(i) ==
    /\ pc[i] \in {"returned", "raised"}
    /\ \A j \in Tasks : pc[j] # "sleep"

(* The future of task i is done: its call returned or raised. *)
Finished(i) == pc[i] \in {"returned", "raised"}

(* Lines 181-183: as_completed yields a finished future; future.result()   *)
(* returns its row, or raises what the call raised, which leaves the loop   *)
(* and the with blocks. Otherwise main takes _write_lock.                   *)
MainTake(i) ==
    /\ mainpc = "collect"
    /\ i \notin seen
    /\ Finished(i)
    /\ seen' = seen \cup {i}
    /\ IF pc[i] = "raised"
       THEN /\ mainpc' = "unwind"
            /\ UNCHANGED <<row, lock>>
       ELSE /\ mainpc' = "write"
            /\ row' = result[i]
            /\ lock' = TRUE
    /\ UNCHANGED <<config, submitted, poolVars, fetchVars, buffer, file,
                   processed, stdout>>

(* Line 184: writer.writerow(row) *)
MainWrite ==
    /\ mainpc = "write"
    /\ buffer' = Append(buffer, RowLine(row))
    /\ mainpc' = "flush"
    /\ UNCHANGED <<config, submitted, poolVars, fetchVars, seen, row, lock,
                   file, processed, stdout>>

(* A sink that does not flush: the row stays in the buffer. *)
MainNoFlush ==
    /\ mainpc = "flush"
    /\ mainpc' = "count"
    /\ UNCHANGED <<config, submitted, poolVars, fetchVars, seen, row, lock,
                   buffer, file, processed, stdout>>

(* Line 185: csvfile.flush() *)
MainFlush ==
    /\ mainpc = "flush"
    /\ file' = file \o buffer
    /\ buffer' = <<>>
    /\ mainpc' = "count"
    /\ UNCHANGED <<config, submitted, poolVars, fetchVars, seen, row, lock,
                   processed, stdout>>

(* Line 188 *)
ProgressDue(n) == n % 10 = 0 \/ n = total

(* Lines 186-189, and the release of _write_lock. *)
MainCount ==
    /\ mainpc = "count"
    /\ processed' = processed + 1
    /\ stdout' = IF ProgressDue(processed + 1)
                 THEN Append(stdout, [kind |-> "progress",
                                      n |-> processed + 1, of |-> total])
                 ELSE stdout
    /\ lock' = FALSE
    /\ row' = NoRow
    /\ mainpc' = "collect"
    /\ UNCHANGED <<config, submitted, poolVars, fetchVars, seen, buffer, file>>

(* Line 191: every future was yielded; the executor and the file close. *)
MainDone ==
    /\ mainpc = "collect"
    /\ seen = Tasks
    /\ stdout' = Append(stdout, [kind |-> "done", n |-> processed])
    /\ mainpc' = "done"
    /\ UNCHANGED <<config, submitted, poolVars, fetchVars, seen, row, lock,
                   buffer, file, processed>>

(* An exception leaves `with ThreadPoolExecutor`: shutdown(wait=True)       *)
(* returns once every submitted call has ended; then the file is closed     *)
(* and main dies with the exception.                                        *)
MainUnwind ==
    /\ mainpc = "unwind"
    /\ \A i \in Tasks : Finished(i)
    /\ mainpc' = "crashed"
    /\ UNCHANGED <<config, submitted, poolVars, fetchVars, seen, sinkVars>>

-----------------------------------------------------------------------------
(* The worker threads and fetch_payment. *)

(* A pool that takes every thread for free once one call has ended. *)
ReleaseEvery(i) == [t \in Threads |-> 0]

(* The thread is free again once its call has ended. *)
Release(i) == [t \in Threads |-> IF running[t] = i THEN 0 ELSE running[t]]

(* A get_session that keeps the session in a module global. *)
GetSessionGlobal(t) ==
    IF \A u \in Threads : sess[u] = 0
    THEN [s |-> t, sess |-> [u \in Threads |-> t], built |-> built + 1]
    ELSE [s |-> sess[t], sess |-> sess, built |-> built]

(* Lines 33-39: get_session on thread t: the session of the thread, built  *)
(* if the thread has none yet.                                             *)
GetSession(t) ==
    IF sess[t] = 0
    THEN [s |-> t, sess |-> [sess EXCEPT ![t] = t], built |-> built + 1]
    ELSE [s |-> sess[t], sess |-> sess, built |-> built]

(* A free worker thread takes the head of the queue and enters             *)
(* fetch_payment: get_session (line 48), then the loop head (line 51).     *)
Start(t) ==
    /\ running[t] = 0
    /\ queue # <<>>
    /\ LET i == Head(queue)
       IN  /\ queue' = Tail(queue)
           /\ sess' = GetSession(t).sess
           /\ built' = GetSession(t).built
           /\ IF 1 <= max_retries
              THEN /\ pc' = [pc EXCEPT ![i] = "get"]
                   /\ attempt' = [attempt EXCEPT ![i] = 1]
                   /\ running' = [running EXCEPT ![t] = i]
                   /\ UNCHANGED result
              ELSE /\ pc' = [pc EXCEPT ![i] = "returned"]
                   /\ result' = [result EXCEPT ![i] = FallbackRow(payment_ids[i])]
                   /\ UNCHANGED <<attempt, running>>
    /\ UNCHANGED <<config, mainpc, submitted, gets, last, sleep_s, seen,
                   sinkVars>>

RECURSIVE GetsOf(_)
(* The GET requests issued so far by the tasks of the set S. *)
GetsOf(S) ==
    IF S = {} THEN 0
    ELSE LET i == CHOOSE x \in S : TRUE IN gets[i] + GetsOf(S \ {i})

(* A fetch_payment whose retry budget is one counter shared by all calls. *)
RespondSharedBudget(i, resp) ==
    /\ pc[i] = "get"
    /\ gets' = [gets EXCEPT ![i] = @ + 1]
    /\ last' = [last EXCEPT ![i] = GotResponse(resp, attempt[i])]
    /\ IF ShouldRetry(resp.status, GetsOf(Tasks) + 1, max_retries)
       THEN LET s == SleepSeconds(resp.retry_after, attempt[i])
            IN  IF s.ok
                THEN /\ pc' = [pc EXCEPT ![i] = "sleep"]
                     /\ sleep_s' = [sleep_s EXCEPT ![i] = s]
                     /\ UNCHANGED <<result, running>>
                ELSE /\ pc' = [pc EXCEPT ![i] = "raised"]
                     /\ running' = Release(i)
                     /\ UNCHANGED <<result, sleep_s>>
       ELSE /\ pc' = [pc EXCEPT ![i] = "returned"]
            /\ result' = [result EXCEPT ![i] = TerminalRow(payment_ids[i], resp)]
            /\ running' = Release(i)
            /\ UNCHANGED sleep_s
    /\ UNCHANGED <<config, mainpc, submitted, queue, sess, built, attempt,
                   seen, sinkVars>>

(* Lines 53-101: sess.get returns resp. *)
Respond(i, resp) ==
    /\ pc[i] = "get"
    /\ gets' = [gets EXCEPT ![i] = @ + 1]
    /\ last' = [last EXCEPT ![i] = GotResponse(resp, attempt[i])]
    /\ IF ShouldRetry(resp.status, attempt[i], max_retries)
       THEN LET s == SleepSeconds(resp.retry_after, attempt[i])
            IN  IF s.ok
                THEN /\ pc' = [pc EXCEPT ![i] = "sleep"]
                     /\ sleep_s' = [sleep_s EXCEPT ![i] = s]
                     /\ UNCHANGED <<result, running>>
                ELSE /\ pc' = [pc EXCEPT ![i] = "raised"]
                     /\ running' = Release(i)
                     /\ UNCHANGED <<result, sleep_s>>
       ELSE /\ pc' = [pc EXCEPT ![i] = "returned"]
            /\ result' = [result EXCEPT ![i] = TerminalRow(payment_ids[i], resp)]
            /\ running' = Release(i)
            /\ UNCHANGED sleep_s
    /\ UNCHANGED <<config, mainpc, submitted, queue, sess, built, attempt,
                   seen, sinkVars>>

(* Lines 102-112: sess.get raises a requests.RequestException e. *)
Fail(i, e) ==
    /\ pc[i] = "get"
    /\ gets' = [gets EXCEPT ![i] = @ + 1]
    /\ last' = [last EXCEPT ![i] = GotFailure(e, attempt[i])]
    /\ IF attempt[i] < max_retries
       THEN /\ pc' = [pc EXCEPT ![i] = "sleep"]
            /\ sleep_s' = [sleep_s EXCEPT ![i] = [ok |-> TRUE] @@ BackoffPow(attempt[i])]
            /\ UNCHANGED <<result, running>>
       ELSE /\ pc' = [pc EXCEPT ![i] = "returned"]
            /\ result' = [result EXCEPT ![i] = FailedRow(payment_ids[i], e)]
            /\ running' = Release(i)
            /\ UNCHANGED sleep_s
    /\ UNCHANGED <<config, mainpc, submitted, queue, sess, built, attempt,
                   seen, sinkVars>>

(* Lines 72-73, 104-105, 51: time.sleep returns and `continue` goes to    *)
(* the loop head: the next attempt if range(1, max_retries + 1) has one,   *)
(* the fallback after the loop otherwise.                                  *)
Wake(i) ==
    /\ pc[i] = "sleep"
    /\ IF attempt[i] + 1 <= max_retries
       THEN /\ pc' = [pc EXCEPT ![i] = "get"]
            /\ attempt' = [attempt EXCEPT ![i] = @ + 1]
            /\ UNCHANGED <<result, running>>
       ELSE /\ pc' = [pc EXCEPT ![i] = "returned"]
            /\ result' = [result EXCEPT ![i] = FallbackRow(payment_ids[i])]
            /\ running' = Release(i)
            /\ UNCHANGED attempt
    /\ UNCHANGED <<config, mainpc, submitted, queue, sess, built, gets,
                   last, sleep_s, seen, sinkVars>>

-----------------------------------------------------------------------------
(* Specifications. *)

NextOver(answers, errors) ==
    \/ MainStart
    \/ MainOpen
    \/ Submit
    \/ \E i \in Tasks : MainTake(i)
    \/ MainWrite
    \/ MainFlush
    \/ MainCount
    \/ MainDone
    \/ MainUnwind
    \/ \E t \in Threads : Start(t)
    \/ \E i \in Tasks, resp \in answers : Respond(i, resp)
    \/ \E i \in Tasks, e \in errors : Fail(i, e)
    \/ \E i \in Tasks : Wake(i)

(* The whole program. *)
Next == NextOver(CoreResponses, CoreErrors)

Spec == Init /\ [][Next]_vars

(* One call of fetch_payment, over every answer. *)
InitFetch ==
    /\ payment_ids \in {<<x>> : x \in Ids}
    /\ workers = 1
    /\ max_retries \in 0..MaxRetries
    /\ InitState

NextFetch == NextOver(Responses, TransportErrors)

FetchSpec == InitFetch /\ [][NextFetch]_vars

-----------------------------------------------------------------------------
(* Vocabulary of the properties. *)

(* main has ended: normally, or with an exception. *)
RunEnded == mainpc \in {"done", "crashed"}

(* The data rows flushed to the output. *)
DataRows == SelectSeq(file, LAMBDA ln : ln.kind = "row")

(* How often x occurs in the sequence q. *)
Occurrences(q, x) == Cardinality({k \in 1..Len(q) : q[k] = x})

RowIds == [k \in 1..Len(DataRows) |-> DataRows[k].fields.payment_id]

(* The latest GET of task i got a response / a transport failure. *)
GotResp(i) == last[i].kind = "resp"

GotFail(i) == last[i].kind = "fail"

(* fetch_payment returned on the attempt of its latest GET. *)
ReturnedAtOnce(i) ==
    /\ pc[i] = "returned"
    /\ gets[i] = last[i].attempt
    /\ attempt[i] = last[i].attempt

(* After its latest GET, at attempt k, task i sleeps d and goes on to      *)
(* attempt k + 1, with no row.                                             *)
RetriesAfter(i, d) ==
    /\ result[i] = NoRow
    /\ sleep_s[i] = d
    /\ \/ pc[i] = "sleep" /\ attempt[i] = last[i].attempt
       \/ pc[i] = "get" /\ attempt[i] = last[i].attempt + 1

Seconds(n, d) == [ok |-> TRUE, num |-> n, den |-> d]

(* backoff^k for backoff = 1.2 *)
Exponential(k) == Seconds(IntPow(12, k), IntPow(10, k))

(* A non-negative integer in decimal notation. *)
IsNonNegativeInteger(s) ==
    Len(s) > 0 /\ \A k \in 1..Len(s) : s[k] \in DecimalChars

RetryableStatus(status) == status \in {429, 500, 502, 503, 504}

(* The latest GET of task i ended in a retryable result. *)
RetryableResult(i) ==
    \/ GotFail(i)
    \/ GotResp(i) /\ RetryableStatus(last[i].resp.status)

-----------------------------------------------------------------------------
(* C1: when the run ends the output holds exactly one row per submitted    *)
(* identifier occurrence: as many rows as identifiers, and each identifier *)
(* as often as the input list has it.                                      *)
C1_OneOutcomePerIdentifier ==
    RunEnded =>
        /\ Len(DataRows) = total
        /\ \A x \in Ids : Occurrences(RowIds, x) = Occurrences(payment_ids, x)

(* C2: a call that raised an unexpected exception does not abort the run:  *)
(* main never unwinds, and once the future was yielded and the sink is at  *)
(* rest its identifier has a row.                                          *)
C2_FailureBecomesOutcome ==
    /\ mainpc \notin {"unwind", "crashed"}
    /\ \A i \in Tasks :
        (pc[i] = "raised" /\ i \in seen /\ mainpc \in {"collect", "done"})
            => \E k \in 1..Len(DataRows) : RowIds[k] = payment_ids[i]

(* The count the final line reports, -1 when there is none. *)
ReportedCount ==
    IF \E k \in 1..Len(stdout) : stdout[k].kind = "done"
    THEN stdout[Len(stdout)].n
    ELSE -1

(* C3: the run terminates, and when it has the final line reports as many  *)
(* processed identifiers as were given: a state where nothing can happen   *)
(* is the state after that line.                                           *)
C3_RunCompletes ==
    (mainpc = "done" /\ ReportedCount = total /\ processed = total)
        \/ ENABLED Next

(* C4: a retryable result on attempt k < max_retries is followed by        *)
(* attempt k + 1 and gives no Outcome; an Outcome comes from a result that *)
(* is not retryable or from attempt max_retries, after 1..max_retries GETs.*)
C4_RetryBudget ==
    \A i \in Tasks :
        /\ (RetryableResult(i) /\ last[i].attempt < max_retries)
               => /\ pc[i] \in {"sleep", "get"}
                  /\ pc[i] = "get" => attempt[i] = last[i].attempt + 1
                  /\ result[i] = NoRow
        /\ (pc[i] = "returned" /\ max_retries >= 1)
               => /\ 1 <= gets[i] /\ gets[i] <= max_retries
                  /\ ~RetryableResult(i) \/ last[i].attempt = max_retries

(* C5: after a retryable status on attempt k < max_retries the wait is V   *)
(* seconds when Retry-After is a non-negative integer V, and backoff^k     *)
(* otherwise.                                                              *)
C5_RetryAfterWait ==
    \A i \in Tasks :
        (/\ GotResp(i)
         /\ RetryableStatus(last[i].resp.status)
         /\ last[i].attempt < max_retries)
        => LET ra == last[i].resp.retry_after
               k == last[i].attempt
           IN  RetriesAfter(i,
                   IF ra.has /\ IsNonNegativeInteger(ra.val)
                   THEN Seconds(DecimalValue(ra.val), 1)
                   ELSE Exponential(k))

-----------------------------------------------------------------------------
(* The error text a body supplies. *)

JsonTyped(resp) == StartsWith(resp.ct, S_APP_JSON)

MessageKeys == <<"message", "error", "cause">>

(* The keys among message, error, cause that a decoded mapping holds with  *)
(* a value Python takes for true, in that order.                           *)
TruthyMessages(resp) ==
    IF JsonTyped(resp) /\ resp.json.t = "dict"
    THEN SelectSeq(MessageKeys,
             LAMBDA key : key \in DOMAIN resp.json.d /\ PyTruthy(resp.json.d[key]))
    ELSE <<>>

GenericError(status) == <<"H", "T", "T", "P", " ">> \o PyStrInt(status)

(* C6: a 500 on attempt max_retries ends the call then and there with      *)
(* http_status 500 and an error that contains "500", whatever the body.    *)
C6_Final500_AsClaimed ==
    \A i \in Tasks :
        (GotResp(i) /\ last[i].resp.status = 500 /\ last[i].attempt = max_retries)
        => /\ ReturnedAtOnce(i)
           /\ result[i].http_status = 500
           /\ Contains(result[i].error, <<"5", "0", "0">>)

(* C6 as amended: the error contains "500" when the body supplies no error *)
(* text of its own (no message, error or cause in a decoded mapping, a     *)
(* decoded body that is no mapping, an empty body that is not JSON), and   *)
(* is some non-empty text in every case.                                   *)
C6_Final500 ==
    \A i \in Tasks :
        (GotResp(i) /\ last[i].resp.status = 500 /\ last[i].attempt = max_retries)
        => LET resp == last[i].resp
               supplied == IF JsonTyped(resp)
                           THEN resp.json.t = "bad" \/ TruthyMessages(resp) # <<>>
                           ELSE resp.text # <<>>
           IN  /\ ReturnedAtOnce(i)
               /\ result[i].http_status = 500
               /\ result[i].error # <<>>
               /\ result[i].order_id = <<>>
               /\ result[i].external_reference = <<>>
               /\ ~supplied => Contains(result[i].error, <<"5", "0", "0">>)

C6_Witness ==
    \E i \in Tasks :
        /\ GotResp(i) /\ last[i].resp.status = 500
        /\ max_retries = 2 /\ last[i].attempt = 2
        /\ pc[i] = "returned"
        /\ result[i].error = <<"H", "T", "T", "P", " ", "5", "0", "0">>

(* C7: a 2xx response whose body is a mapping (decoded as the content     *)
(* type says) gives, on that attempt, the success Outcome: order_id the    *)
(* stringified id of the nested order when it has one, external_reference  *)
(* the stringified top-level field, each empty when absent (or null).      *)
C7_SuccessFields_AsClaimed ==
    \A i \in Tasks :
        (/\ GotResp(i) /\ Is2xx(last[i].resp.status)
         /\ JsonTyped(last[i].resp) /\ last[i].resp.json.t = "dict")
        => LET body == last[i].resp.json.d
               hasId == /\ "order" \in DOMAIN body
                        /\ body.order.t = "dict"
                        /\ "id" \in DOMAIN body.order.d
                        /\ body.order.d.id.t # "null"
               hasRef == /\ "external_reference" \in DOMAIN body
                         /\ body.external_reference.t # "null"
           IN  /\ ReturnedAtOnce(i)
               /\ result[i] =
                    [payment_id |-> payment_ids[i],
                     order_id |-> IF hasId THEN PyStr(body.order.d.id) ELSE <<>>,
                     external_reference |->
                        IF hasRef THEN PyStr(body.external_reference) ELSE <<>>,
                     http_status |-> last[i].resp.status,
                     error |-> <<>>]

(* C7 as amended: a field whose value Python takes for false (0, false,    *)
(* "" as well as null) counts as absent.                                   *)
C7_SuccessFields ==
    \A i \in Tasks :
        (/\ GotResp(i) /\ Is2xx(last[i].resp.status)
         /\ JsonTyped(last[i].resp) /\ last[i].resp.json.t = "dict")
        => LET body == last[i].resp.json.d
               hasId == /\ "order" \in DOMAIN body
                        /\ body.order.t = "dict"
                        /\ "id" \in DOMAIN body.order.d
                        /\ PyTruthy(body.order.d.id)
               hasRef == /\ "external_reference" \in DOMAIN body
                         /\ PyTruthy(body.external_reference)
           IN  /\ ReturnedAtOnce(i)
               /\ result[i] =
                    [payment_id |-> payment_ids[i],
                     order_id |-> IF hasId THEN PyStr(body.order.d.id) ELSE <<>>,
                     external_reference |->
                        IF hasRef THEN PyStr(body.external_reference) ELSE <<>>,
                     http_status |-> last[i].resp.status,
                     error |-> <<>>]

(* The example of the specification. *)
C7_Witness ==
    \E i \in Tasks :
        /\ GotResp(i)
        /\ last[i].resp.json =
              JDict([order |-> JDict([id |-> JStr(<<"1", "2", "3">>)]),
                     external_reference |-> JStr(<<"r", "e", "f", "-", "9">>)])
        /\ result[i] # NoRow
        /\ result[i].order_id = <<"1", "2", "3">>
        /\ result[i].external_reference = <<"r", "e", "f", "-", "9">>
        /\ result[i].error = <<>>

(* C8: a 2xx response whose body is not structured data (a content type    *)
(* that is not JSON, JSON that does not decode, JSON that is no mapping)   *)
(* is not retried: the call returns on that attempt a row with a non-empty *)
(* error and empty order_id and external_reference.                        *)
C8_Unparseable2xx ==
    \A i \in Tasks :
        (/\ GotResp(i) /\ Is2xx(last[i].resp.status)
         /\ \/ ~JsonTyped(last[i].resp)
            \/ last[i].resp.json.t = "bad"
            \/ last[i].resp.json.t # "dict")
        => /\ ReturnedAtOnce(i)
           /\ result[i].error # <<>>
           /\ result[i].order_id = <<>>
           /\ result[i].external_reference = <<>>
           /\ result[i].http_status = last[i].resp.status

C8_Witness ==
    \E i \in Tasks :
        /\ GotResp(i) /\ last[i].resp.status = 200
        /\ ~JsonTyped(last[i].resp)
        /\ pc[i] = "returned"
        /\ result[i].error # <<>>

(* C9: a status that is neither 2xx nor retried ends the call on that      *)
(* attempt; the error is the API message of the body when there is one     *)
(* and "HTTP {status}" otherwise.                                          *)
C9_TerminalStatus_AsClaimed ==
    \A i \in Tasks :
        (/\ GotResp(i) /\ ~Is2xx(last[i].resp.status)
         /\ ~RetryableStatus(last[i].resp.status))
        => LET resp == last[i].resp
               keys == TruthyMessages(resp)
           IN  /\ ReturnedAtOnce(i)
               /\ result[i].order_id = <<>>
               /\ result[i].external_reference = <<>>
               /\ result[i].error =
                    IF keys # <<>> THEN PyStr(resp.json.d[keys[1]])
                    ELSE GenericError(resp.status)

(* C9 as amended: without an API message the error is "Invalid JSON in     *)
(* response" for a JSON body that does not decode, the first 500           *)
(* characters of a non-empty body that is not JSON, and "HTTP {status}"    *)
(* only otherwise.                                                         *)
C9_TerminalStatus ==
    \A i \in Tasks :
        (/\ GotResp(i) /\ ~Is2xx(last[i].resp.status)
         /\ ~RetryableStatus(last[i].resp.status))
        => LET resp == last[i].resp
               keys == TruthyMessages(resp)
           IN  /\ ReturnedAtOnce(i)
               /\ result[i].order_id = <<>>
               /\ result[i].external_reference = <<>>
               /\ result[i].http_status = resp.status
               /\ result[i].error =
                    IF keys # <<>> THEN PyStr(resp.json.d[keys[1]])
                    ELSE IF JsonTyped(resp) /\ resp.json.t = "bad"
                         THEN <<"I", "n", "v", "a", "l", "i", "d", " ", "J",
                                "S", "O", "N", " ", "i", "n", " ", "r", "e",
                                "s", "p", "o", "n", "s", "e">>
                    ELSE IF ~JsonTyped(resp) /\ resp.text # <<>>
                         THEN Prefix(resp.text, 500)
                    ELSE GenericError(resp.status)

C9_Witness ==
    \E i \in Tasks :
        /\ GotResp(i) /\ last[i].resp.status = 404
        /\ TruthyMessages(last[i].resp) = <<"error">>
        /\ pc[i] = "returned"
        /\ result[i].error = <<"b", "a", "d">>

(* C10: a transport failure on attempt k < max_retries makes the call wait *)
(* backoff^k and go on to attempt k + 1; on attempt max_retries it gives a *)
(* row with http_status 0, empty order_id and external_reference and an    *)
(* error that carries the failure's message. A row made from a response    *)
(* never has http_status 0.                                                *)
C10_TransportFailure ==
    \A i \in Tasks :
        /\ (GotFail(i) /\ last[i].attempt < max_retries)
               => RetriesAfter(i, Exponential(last[i].attempt))
        /\ (GotFail(i) /\ last[i].attempt = max_retries)
               => /\ ReturnedAtOnce(i)
                  /\ result[i].http_status = 0
                  /\ result[i].order_id = <<>>
                  /\ result[i].external_reference = <<>>
                  /\ result[i].payment_id = payment_ids[i]
                  /\ Len(result[i].error) > Len(last[i].e)
                  /\ Contains(result[i].error, last[i].e)
        /\ (GotResp(i) /\ pc[i] = "returned") => result[i].http_status # 0

C10_Witness ==
    \E i \in Tasks :
        /\ GotFail(i) /\ max_retries = 2 /\ last[i].attempt = 2
        /\ sleep_s[i] = Seconds(12, 10)
        /\ pc[i] = "returned"
        /\ result[i].http_status = 0
        /\ last[i].e # <<>>

-----------------------------------------------------------------------------
(* A line of the output that is one whole row: every column of fieldnames. *)
CompleteRow(ln) ==
    /\ ln.kind = "row"
    /\ DOMAIN ln.fields = {fieldnames[k] : k \in 1..Len(fieldnames)}

(* main is between taking _write_lock and releasing it. *)
InWriteSection == mainpc \in {"write", "flush", "count"}

(* C11: writes of rows are mutually exclusive: _write_lock is held exactly *)
(* while main writes, flushes and counts one row, at most one row is       *)
(* written and not yet flushed, every line after the header is one whole   *)
(* row, and when a run over N identifiers has ended the output holds       *)
(* exactly N + 1 lines: the header and N rows.                             *)
C11_ExclusiveWrites ==
    /\ lock <=> InWriteSection
    /\ Len(buffer) <= 1
    /\ buffer # <<>> => lock
    /\ \A k \in 1..Len(buffer) : CompleteRow(buffer[k])
    /\ RunEnded =>
           /\ Len(file) = total + 1
           /\ file[1] = HeaderLine
           /\ \A k \in 2..Len(file) : CompleteRow(file[k])

-----------------------------------------------------------------------------
(* The output was opened by this run. *)
Opened == mainpc \notin {"start", "fatal", "open"}

(* The flushed content: the header once, first, then whole rows only. *)
HeaderThenRows ==
    /\ file # <<>>
    /\ file[1] = HeaderLine
    /\ \A k \in 2..Len(file) : CompleteRow(file[k])

(* Every row is flushed before the next is written: a row is buffered     *)
(* only between its write and its flush.                                   *)
FlushedRowByRow ==
    /\ mainpc = "flush" => Len(buffer) = 1 /\ CompleteRow(buffer[1])
    /\ mainpc # "flush" => buffer = <<>>

-----------------------------------------------------------------------------
(* The call of task j has ended and main, waiting in as_completed, has not *)
(* yet been given its future.                                              *)
Collectable(j) ==
    /\ mainpc = "collect"
    /\ j \notin seen
    /\ pc[j] \in {"returned", "raised"}

(* C13: a backoff wait blocks only the call that sleeps. While task i      *)
(* sleeps, every other call that is at a request can get its answer, every *)
(* other sleeper can wake, every free thread can take the next queued      *)
(* identifier, and main can take any finished call and carry its row       *)
(* through write, flush and count.                                         *)
C13_SleepBlocksOnlyItsWorker ==
    \A i \in Tasks :
        pc[i] = "sleep" =>
            /\ \A j \in Tasks \ {i} :
                   /\ pc[j] = "get" =>
                          /\ \A resp \in CoreResponses : ENABLED Respond(j, resp)
                          /\ \A e \in CoreErrors : ENABLED Fail(j, e)
                   /\ pc[j] = "sleep" => ENABLED Wake(j)
                   /\ Collectable(j) => ENABLED MainTake(j)
            /\ \A t \in Threads :
                   (running[t] = 0 /\ queue # <<>>) => ENABLED Start(t)
            /\ mainpc = "write" => ENABLED MainWrite
            /\ mainpc = "flush" => ENABLED MainFlush
            /\ mainpc = "count" => ENABLED MainCount

(* Task 1 is in its first sleep and has never finished, while task 2 was   *)
(* fetched with a retry of its own, and its row is written and counted.    *)
C13_Witness ==
    /\ total = 2
    /\ pc[1] = "sleep" /\ gets[1] = 1 /\ result[1] = NoRow
    /\ pc[2] = "returned" /\ gets[2] = 2
    /\ 2 \in seen
    /\ processed = 1
    /\ DataRows = <<RowLine(result[2])>>

-----------------------------------------------------------------------------
(* The identifiers whose fetch is in progress: at a request or asleep. *)
InProgress == {i \in Tasks : pc[i] \in {"get", "sleep"}}

(* The identifiers submitted and not yet started. *)
Waiting == {i \in Tasks : pc[i] = "queued"}

(* C14: parallelism is bounded by --workers: the fetches in progress are   *)
(* exactly the calls the worker threads run, one thread each, so they are  *)
(* at most `workers`; each identifier is submitted once (tasks 1..submitted*)
(* left "new", each waiting one is in the queue once); a fetch that has    *)
(* not started waits in the queue while every thread is busy.              *)
C14_BoundedParallelism ==
    /\ Cardinality(InProgress) <= workers
    /\ InProgress = {running[t] : t \in Threads} \ {0}
    /\ \A t, u \in Threads : (running[t] = running[u] /\ running[t] # 0) => t = u
    /\ submitted <= total
    /\ \A i \in Tasks : pc[i] = "new" <=> i > submitted
    /\ Waiting = {queue[k] : k \in 1..Len(queue)}
    /\ Len(queue) = Cardinality(Waiting)

(* One worker, two identifiers: the second waits while the first is asleep. *)
C14_Witness ==
    /\ workers = 1
    /\ total = 2
    /\ pc[1] = "sleep"
    /\ queue = <<2>>
    /\ pc[2] = "queued"
    /\ running[1] = 1

-----------------------------------------------------------------------------
(* Where the call of task i stands, whoever runs it: not started, between  *)
(* attempts, or ended in a row or in an exception.                         *)
Phase(i) ==
    CASE pc[i] \in {"new", "queued"} -> "waiting"
      [] pc[i] \in {"get", "sleep"} -> "retrying"
      [] OTHER -> pc[i]

(* The latest GET of task i is the one its latest sleep followed. *)
SleptAfterLast(i) ==
    /\ last[i] # NoEvent
    /\ \/ pc[i] = "sleep"
       \/ pc[i] = "get" /\ attempt[i] = last[i].attempt + 1

(* C15: two fetches of the same identifier in one run (same token, same    *)
(* --retries) whose GETs ended the same way, attempt for attempt, stand in *)
(* the same place: both go on to the next attempt after the same wait,     *)
(* both raise, or both return the same row in all five columns, whichever  *)
(* threads run them and whatever else those threads and main have done.    *)
(* The latest answer and its attempt number stand for the whole sequence:  *)
(* equal sequences have equal last elements.                               *)
C15_Deterministic ==
    \A i, j \in Tasks :
        (/\ payment_ids[i] = payment_ids[j]
         /\ Phase(i) # "waiting" /\ Phase(j) # "waiting"
         /\ last[i] = last[j])
        => /\ Phase(i) = Phase(j)
           /\ result[i] = result[j]
           /\ (SleptAfterLast(i) /\ SleptAfterLast(j)) => sleep_s[i] = sleep_s[j]

(* The same identifier twice, fetched on two different threads, the first  *)
(* call ended while the second was still running, both answered 500 on     *)
(* their second attempt: the same row, already written for one of them.    *)
C15_Witness ==
    /\ payment_ids = <<<<"7">>, <<"7">>>>
    /\ workers = 2
    /\ sess = <<1, 2>>
    /\ pc = <<"returned", "returned">>
    /\ last[1] = last[2]
    /\ last[1].kind = "resp" /\ last[1].resp.status = 500 /\ last[1].attempt = 2
    /\ seen = {1}
    /\ processed = 1
    /\ result[1] = result[2]
    /\ result[1].http_status = 500

-----------------------------------------------------------------------------
(* No token was given: args.token is None, empty or blank. *)
TokenMissing == Strip(token) = <<>>

(* Nothing of the run's work has happened. *)
NoWorkDone ==
    /\ submitted = 0
    /\ queue = <<>>
    /\ \A i \in Tasks : pc[i] = "new" /\ gets[i] = 0
    /\ built = 0
    /\ file \in OutfileBefore
    /\ buffer = <<>>
    /\ processed = 0

(* C16: a missing token ends the run before any work: nothing is           *)
(* submitted, no GET is issued, the output is neither created nor          *)
(* truncated. Nothing else ends the run early: with a token, main never    *)
(* dies of what happened to one identifier.                                *)
C16_OnlyMissingTokenIsFatal ==
    /\ TokenMissing => mainpc \in {"start", "fatal"} /\ NoWorkDone
    /\ ~TokenMissing => mainpc \notin {"fatal", "unwind", "crashed"}

-----------------------------------------------------------------------------
(* The worker threads that have a session. *)
SessionHolders == {t \in Threads : sess[t] # 0}

(* C17: each worker thread has at most one session and it is the one that  *)
(* thread built: _build_session ran once per thread that holds a session   *)
(* (so a later get_session on the thread built none), never more often     *)
(* than there are threads; no thread sees a session built by another; a    *)
(* running call uses the session of its own thread.                        *)
C17_OneClientPerWorker ==
    /\ \A t \in Threads : sess[t] \in {0, t}
    /\ built = Cardinality(SessionHolders)
    /\ built <= workers
    /\ \A t \in Threads : running[t] # 0 => sess[t] = t

(* One thread alone runs its second call: get_session found the session   *)
(* of the first call and built no other.                                    *)
C17_Witness ==
    /\ workers = 1
    /\ total = 2
    /\ pc[1] = "returned"
    /\ pc[2] = "get"
    /\ running[1] = 2
    /\ sess = <<1>>
    /\ built = 1

-----------------------------------------------------------------------------
(* The progress lines printed so far, and the counts they report. *)
ProgressLines == SelectSeq(stdout, LAMBDA ln : ln.kind = "progress")

Reported == [k \in 1..Len(ProgressLines) |-> ProgressLines[k].n]

(* C18: a progress line {completed}/{total} is printed exactly for the     *)
(* counts that are a multiple of 10 or equal the total: the counts         *)
(* reported so far are those among 1..processed, each once, in increasing  *)
(* order, each with the total; the count is the number of rows written     *)
(* and counted; and when the run has ended the last count reported is the  *)
(* total.                                                                  *)
C18_ProgressLines ==
    /\ {Reported[k] : k \in 1..Len(Reported)} =
           {n \in 1..processed : n % 10 = 0 \/ n = total}
    /\ \A k \in 1..Len(Reported) - 1 : Reported[k] < Reported[k + 1]
    /\ \A k \in 1..Len(ProgressLines) : ProgressLines[k].of = total
    /\ processed = Len(DataRows) - (IF mainpc = "count" THEN 1 ELSE 0)
    /\ RunEnded =>
           /\ Reported # <<>>
           /\ Reported[Len(Reported)] = total

-----------------------------------------------------------------------------
(* The row of task i is the fallback after the retry loop. *)
Exhausted(i) ==
    /\ pc[i] = "returned"
    /\ result[i].http_status = 0
    /\ result[i].error = <<"E", "x", "h", "a", "u", "s", "t", "e", "d", " ",
                           "r", "e", "t", "r", "i", "e", "s">>

(* C19: the fallback after the retry loop is unreachable: for every        *)
(* --retries and every sequence of responses and transport failures, a     *)
(* call that returns has returned from inside the loop, after at least one *)
(* GET, and no row carries http_status 0 with "Exhausted retries".         *)
C19_FallbackUnreachable ==
    \A i \in Tasks :
        /\ ~Exhausted(i)
        /\ pc[i] = "returned" => gets[i] >= 1 /\ ReturnedAtOnce(i)

-----------------------------------------------------------------------------
(* The response was decoded to a mapping: a JSON content type and a body   *)
(* that is a JSON object.                                                  *)
StructuredMapping(resp) == JsonTyped(resp) /\ resp.json.t = "dict"

(* C20: every row fetch_payment returns has the five columns; its          *)
(* payment_id is the identifier of the call; its http_status is that of    *)
(* the response it was made from (0 when there was none); its error is     *)
(* empty exactly when the call ended on a response with a status in        *)
(* 200..299 whose body was decoded to a mapping; and order_id and          *)
(* external_reference are empty whenever the error is not.                 *)
C20_WellFormedOutcome ==
    \A i \in Tasks :
        pc[i] = "returned" =>
            LET r == result[i]
            IN  /\ DOMAIN r = {fieldnames[k] : k \in 1..Len(fieldnames)}
                /\ r.payment_id = payment_ids[i]
                /\ r.http_status = (IF GotResp(i) /\ ReturnedAtOnce(i)
                                    THEN last[i].resp.status ELSE 0)
                /\ r.error = <<>> <=>
                       /\ r.http_status \in 200..299
                       /\ GotResp(i)
                       /\ StructuredMapping(last[i].resp)
                /\ r.error # <<>> =>
                       r.order_id = <<>> /\ r.external_reference = <<>>

(* A 404 whose JSON body is a mapping with an order and a message: the     *)
(* row has the message as its error and no order_id.                       *)
C20_Witness ==
    \E i \in Tasks :
        /\ pc[i] = "returned"
        /\ GotResp(i)
        /\ last[i].resp.status = 404
        /\ StructuredMapping(last[i].resp)
        /\ "order" \in DOMAIN last[i].resp.json.d
        /\ result[i].error # <<>>
        /\ result[i].error # GenericError(404)
        /\ result[i].order_id = <<>>
        /\ result[i].payment_id = payment_ids[i]

=============================================================================
